---- MODULE Spec2Model ----
(***************************************************************************)
(* WaylandClipboardContext (src/src/wayland_clipboard.rs): a context with  *)
(* one cached capability flag over the wl_clipboard_rs transport.  The     *)
(* transport is the environment: two selections (regular, primary), the    *)
(* seats, and the failures it can report.  Strings are their UTF-8 bytes.  *)
(***************************************************************************)
EXTENDS Integers, Sequences, FiniteSets, TLC

\* ---------------------------------------------------------------- bounds
MaxLen == 2

\* bytes used for payloads: '\n', and the two bytes of U+00E9
Bytes == {10, 195, 169}

RECURSIVE SeqsUpTo(_)
SeqsUpTo(n) ==
    IF n = 0 THEN {<<>>}
    ELSE LET prev == SeqsUpTo(n - 1)
         IN prev \cup {Append(s, b) : s \in {p \in prev : Len(p) = n - 1}, b \in Bytes}

ByteSeqs == SeqsUpTo(MaxLen)

\* ------------------------------------------------------ UTF-8 validation
IsCont(b) == b >= 128 /\ b <= 191

RECURSIVE ValidFrom(_, _)
ValidFrom(s, i) ==
    IF i > Len(s) THEN TRUE
    ELSE LET b == s[i] IN
      IF b < 128 THEN ValidFrom(s, i + 1)
      ELSE IF b >= 194 /\ b <= 223
        THEN i + 1 <= Len(s) /\ IsCont(s[i + 1]) /\ ValidFrom(s, i + 2)
      ELSE IF b >= 224 /\ b <= 239
        THEN /\ i + 2 <= Len(s)
             /\ IsCont(s[i + 1]) /\ IsCont(s[i + 2])
             /\ (b = 224 => s[i + 1] >= 160)
             /\ (b = 237 => s[i + 1] <= 159)
             /\ ValidFrom(s, i + 3)
      ELSE IF b >= 240 /\ b <= 244
        THEN /\ i + 3 <= Len(s)
             /\ IsCont(s[i + 1]) /\ IsCont(s[i + 2]) /\ IsCont(s[i + 3])
             /\ (b = 240 => s[i + 1] >= 144)
             /\ (b = 244 => s[i + 1] <= 143)
             /\ ValidFrom(s, i + 4)
      ELSE FALSE

IsValidUtf8(s) == ValidFrom(s, 1)

\* the values a Rust String can hold
Strings == {s \in ByteSeqs : IsValidUtf8(s)}

\* ------------------------------------------------------------ results
Ok(v) == [ok |-> TRUE, val |-> v, err |-> "none"]
Err(e) == [ok |-> FALSE, val |-> <<>>, err |-> e]

EmptyLike == {"NoSeats", "ClipboardEmpty", "NoMimeType"}

\* failures the transport can report besides the empty-like ones
PasteFaults == {"none", "WaylandCommunication", "MissingProtocol"}
CopyFaults == {"none", "Fork"}
ClearFaults == {"none", "Fork"}
CheckFaults == {"none", "SocketOpenError"}

\* ------------------------------------------------------------- state
VARIABLES
    constructed,    \* a context exists
    self,           \* the context: [supports_primary_selection]
    seats,          \* the compositor has at least one seat
    primary_protocol, \* the compositor speaks the primary selection protocol
    regular,        \* offer on the regular selection
    primary,        \* offer on the primary selection
    lastOp,         \* the operation that ran last
    arg,            \* its String argument (set_contents)
    result,         \* what it returned
    calls,          \* the transport calls it made, in order
    pc,             \* where a running get_contents is blocked, or "idle"
    reader,         \* the bytes in the pipe a paste call returned
    last            \* last successful write/clear not yet disturbed

vars == <<constructed, self, seats, primary_protocol, regular, primary,
          lastOp, arg, result, calls, pc, reader, last>>

NoOffer == [kind |-> "empty", bytes |-> <<>>]
TextOffer(b) == [kind |-> "text", bytes |-> b]
OtherOffer == [kind |-> "other", bytes |-> <<>>]
Offers == {NoOffer, OtherOffer} \cup {TextOffer(b) : b \in ByteSeqs}

Undisturbed(k, d) == [kind |-> k, data |-> d]

\* ------------------------------------------- transport (wl_clipboard_rs)
\* resp: "Ok" or the error reported; bytes: the bytes handed over (copy) or
\* put in the returned pipe (paste); io: draining that pipe failed
Call(fn, clipboard, seat, bytes, trim, resp, io) ==
    [fn |-> fn, clipboard |-> clipboard, seat |-> seat, mime |-> "Text",
     bytes |-> bytes, trim_newline |-> trim, resp |-> resp, io |-> io]

Resp(r) == IF r.ok THEN "Ok" ELSE r.err

\* utils::is_primary_selection_supported()
is_primary_selection_supported(fault) ==
    IF fault # "none" THEN [ok |-> FALSE, supported |-> FALSE, err |-> fault]
    ELSE IF ~seats THEN [ok |-> FALSE, supported |-> FALSE, err |-> "NoSeats"]
    ELSE [ok |-> TRUE, supported |-> primary_protocol, err |-> "none"]

Offer(clipboard) == IF clipboard = "Primary" THEN primary ELSE regular

\* paste::get_contents(clipboard, Seat::Unspecified, MimeType::Text): the
\* pipe it returns carries the bytes offered at the time of the call
paste_get_contents(clipboard, fault) ==
    LET fail(e) == [ok |-> FALSE, bytes |-> <<>>, err |-> e]
    IN IF fault # "none" THEN fail(fault)
       ELSE IF ~seats THEN fail("NoSeats")
       ELSE IF clipboard = "Primary" /\ ~primary_protocol
            THEN fail("PrimarySelectionUnsupported")
       ELSE IF Offer(clipboard).kind = "empty" THEN fail("ClipboardEmpty")
       ELSE IF Offer(clipboard).kind = "other" THEN fail("NoMimeType")
       ELSE [ok |-> TRUE, bytes |-> Offer(clipboard).bytes, err |-> "none"]

\* what Options::copy serves: the source bytes, less one trailing newline
\* when trim_newline is set
Served(bytes, trim) ==
    IF trim /\ Len(bytes) > 0 /\ bytes[Len(bytes)] = 10
    THEN SubSeq(bytes, 1, Len(bytes) - 1)
    ELSE bytes

\* Options::copy(Source::Bytes(bytes), MimeType::Text)
copy(options, bytes, fault) ==
    LET fail(e) == [ok |-> FALSE, err |-> e, regular |-> regular, primary |-> primary]
        offer == TextOffer(Served(bytes, options.trim_newline))
    IN IF fault # "none" THEN fail(fault)
       ELSE IF ~seats THEN fail("NoSeats")
       ELSE IF options.clipboard = "Both" /\ ~primary_protocol
            THEN fail("PrimarySelectionUnsupported")
       ELSE [ok |-> TRUE, err |-> "none",
             regular |-> offer,
             primary |-> IF options.clipboard = "Both" THEN offer ELSE primary]

\* copy::clear(clipboard, Seat::All)
transport_clear(clipboard, fault) ==
    LET fail(e) == [ok |-> FALSE, err |-> e, regular |-> regular, primary |-> primary]
    IN IF fault # "none" THEN fail(fault)
       ELSE IF ~seats THEN fail("NoSeats")
       ELSE IF clipboard = "Both" /\ ~primary_protocol
            THEN fail("PrimarySelectionUnsupported")
       ELSE [ok |-> TRUE, err |-> "none",
             regular |-> NoOffer,
             primary |-> IF clipboard = "Both" THEN NoOffer ELSE primary]

\* ------------------------------------------------------ the context
\* read_into_string: drain the reader and validate UTF-8
read_into_string(rd) ==
    IF rd.io THEN Err("Io")
    ELSE IF ~IsValidUtf8(rd.bytes) THEN Err("InvalidData")
    ELSE Ok(rd.bytes)

new_nofallback(check) ==
    IF check.ok
    THEN [ok |-> TRUE, supports_primary_selection |-> check.supported, err |-> "none"]
    ELSE [ok |-> FALSE, supports_primary_selection |-> FALSE, err |-> check.err]

\* WaylandClipboardContext::new, on the answer of the capability check
new(check) ==
    IF check.ok
    THEN [ok |-> TRUE, supports_primary_selection |-> check.supported, err |-> "none"]
    ELSE IF check.err = "NoSeats"
    THEN [ok |-> TRUE, supports_primary_selection |-> FALSE, err |-> "none"]
    ELSE [ok |-> FALSE, supports_primary_selection |-> FALSE, err |-> check.err]

\* how a step of get_contents goes on: return r, drain the pipe, or go on
\* to the regular selection
Return(r) == [next |-> "return", result |-> r]
Pending == [ok |-> FALSE, val |-> <<>>, err |-> "pending"]
Drain == [next |-> "drain", result |-> Pending]
FallThrough == [next |-> "regular", result |-> Pending]

get_first_clipboard_ungated(ctx) == "Primary"

\* get_contents, the selection it pastes from first (line 85)
get_first_clipboard(ctx) ==
    IF ctx.supports_primary_selection THEN "Primary" ELSE "Regular"

\* get_contents, the match on the primary-selection paste (lines 86-102)
primary_arm(rP) ==
    IF rP.ok THEN Drain
    ELSE IF rP.err \in EmptyLike THEN Return(Ok(<<>>))
    ELSE FallThrough

primary_drain_fallback(r) ==
    IF r.ok THEN Return(r) ELSE FallThrough

\* get_contents, after draining the primary pipe (line 94): the text or
\* the error is returned
primary_drain(r) == Return(r)

regular_arm_surface(rR) ==
    IF rR.ok THEN Drain
    ELSE Return(Err(rR.err))

\* get_contents, the match on the regular-selection paste (lines 105-115)
regular_arm(rR) ==
    IF rR.ok THEN Drain
    ELSE IF rR.err \in EmptyLike THEN Return(Ok(<<>>))
    ELSE Return(Err(rR.err))

\* get_contents, after draining the regular pipe (line 117)
regular_drain(r) == Return(r)

set_options_trim(ctx) ==
    [seat |-> "All", trim_newline |-> TRUE, foreground |-> FALSE,
     serve_requests |-> "Unlimited",
     clipboard |-> IF ctx.supports_primary_selection THEN "Both" ELSE "Regular"]

set_options_both(ctx) ==
    [seat |-> "All", trim_newline |-> FALSE, foreground |-> FALSE,
     serve_requests |-> "Unlimited", clipboard |-> "Both"]

\* set_contents, the Options it builds (lines 127-139)
set_options(ctx) ==
    [seat |-> "All", trim_newline |-> FALSE, foreground |-> FALSE,
     serve_requests |-> "Unlimited",
     clipboard |-> IF ctx.supports_primary_selection THEN "Both" ELSE "Regular"]

\* String::into_bytes: the UTF-8 bytes of the string
into_bytes(data) == data

\* WaylandClipboardContext::set_contents
set_contents(ctx, data, fault) ==
    LET options == set_options(ctx)
        r == copy(options, into_bytes(data), fault)
    IN [result |-> IF r.ok THEN Ok(<<>>) ELSE Err(r.err),
        calls |-> <<Call("copy", options.clipboard, options.seat,
                         into_bytes(data), options.trim_newline, Resp(r), FALSE)>>,
        regular |-> r.regular, primary |-> r.primary]

clear_target_both(ctx) == "Both"

clear_target_regular(ctx) == "Regular"

\* clear, the selection it targets (lines 150-154)
clear_target(ctx) ==
    IF ctx.supports_primary_selection THEN "Both" ELSE "Regular"

\* WaylandClipboardContext::clear
clear(ctx, fault) ==
    LET r == transport_clear(clear_target(ctx), fault)
    IN [result |-> IF r.ok THEN Ok(<<>>) ELSE Err(r.err),
        calls |-> <<Call("clear", clear_target(ctx), "All", <<>>, FALSE, Resp(r),
                         FALSE)>>,
        regular |-> r.regular, primary |-> r.primary]

\* ------------------------------------------------------------ actions
NoContext == [supports_primary_selection |-> FALSE]

Init ==
    /\ constructed = FALSE
    /\ self = NoContext
    /\ seats \in BOOLEAN
    /\ primary_protocol \in BOOLEAN
    /\ regular \in Offers
    /\ primary \in Offers
    /\ ~seats => regular = NoOffer /\ primary = NoOffer
    /\ ~primary_protocol => primary = NoOffer
    /\ lastOp = "init"
    /\ arg = <<>>
    /\ result = Ok(<<>>)
    /\ calls = <<>>
    /\ pc = "idle"
    /\ reader = <<>>
    /\ last = Undisturbed("none", <<>>)

\* construct the context (again, after a failed construction)
New(faults) ==
    /\ ~constructed
    /\ pc = "idle"
    /\ \E f \in faults :
         LET check == is_primary_selection_supported(f)
             r == new(check)
         IN /\ constructed' = r.ok
            /\ self' = [supports_primary_selection |-> r.supports_primary_selection]
            /\ result' = IF r.ok THEN Ok(<<>>) ELSE Err(r.err)
            /\ calls' = <<Call("check", "-", "-", <<>>, FALSE, Resp(check), FALSE)>>
    /\ lastOp' = "new"
    /\ arg' = <<>>
    /\ UNCHANGED <<seats, primary_protocol, regular, primary, pc, reader, last>>

PcAfter(step, drainPc) ==
    IF step.next = "drain" THEN drainPc
    ELSE IF step.next = "regular" THEN "regular"
    ELSE "idle"

\* get_contents up to the answer of the primary paste (lines 85-102)
GetPrimary(faults) ==
    /\ constructed
    /\ pc = "idle"
    /\ get_first_clipboard(self) = "Primary"
    /\ \E f \in faults :
         LET rP == paste_get_contents("Primary", f)
             step == primary_arm(rP)
         IN /\ calls' = <<Call("paste", "Primary", "Unspecified", rP.bytes,
                               FALSE, Resp(rP), FALSE)>>
            /\ reader' = rP.bytes
            /\ result' = step.result
            /\ pc' = PcAfter(step, "drainP")
    /\ lastOp' = "get"
    /\ arg' = <<>>
    /\ UNCHANGED <<constructed, self, seats, primary_protocol, regular, primary, last>>

\* get_contents, the regular paste (lines 105-115): first call when the
\* flag is false, second after the primary paste fell through
GetRegular(faults) ==
    /\ constructed
    /\ \/ pc = "regular"
       \/ pc = "idle" /\ get_first_clipboard(self) = "Regular"
    /\ \E f \in faults :
         LET rR == paste_get_contents("Regular", f)
             step == regular_arm(rR)
             call == Call("paste", "Regular", "Unspecified", rR.bytes,
                          FALSE, Resp(rR), FALSE)
         IN /\ calls' = IF pc = "regular" THEN Append(calls, call) ELSE <<call>>
            /\ reader' = rR.bytes
            /\ result' = step.result
            /\ pc' = PcAfter(step, "drainR")
    /\ lastOp' = "get"
    /\ arg' = <<>>
    /\ UNCHANGED <<constructed, self, seats, primary_protocol, regular, primary, last>>

\* get_contents, draining the pipe of the paste that succeeded (lines 94, 117)
GetDrain(ios) ==
    /\ pc \in {"drainP", "drainR"}
    /\ \E io \in ios :
         LET r == read_into_string([bytes |-> reader, io |-> io])
             step == IF pc = "drainP" THEN primary_drain(r) ELSE regular_drain(r)
         IN /\ calls' = [calls EXCEPT ![Len(calls)].io = io]
            /\ result' = step.result
            /\ pc' = PcAfter(step, pc)
    /\ reader' = <<>>
    /\ UNCHANGED <<constructed, self, seats, primary_protocol, regular, primary,
                   lastOp, arg, last>>

Set(faults) ==
    /\ constructed
    /\ pc = "idle"
    /\ \E data \in Strings, f \in faults :
         LET r == set_contents(self, data, f)
         IN /\ result' = r.result
            /\ calls' = r.calls
            /\ regular' = r.regular
            /\ primary' = r.primary
            /\ arg' = data
            /\ last' = IF r.result.ok THEN Undisturbed("set", data)
                       ELSE Undisturbed("none", <<>>)
    /\ lastOp' = "set"
    /\ UNCHANGED <<constructed, self, seats, primary_protocol, pc, reader>>

Clear(faults) ==
    /\ constructed
    /\ pc = "idle"
    /\ \E f \in faults :
         LET r == clear(self, f)
         IN /\ result' = r.result
            /\ calls' = r.calls
            /\ regular' = r.regular
            /\ primary' = r.primary
            /\ last' = IF r.result.ok THEN Undisturbed("clear", <<>>)
                       ELSE Undisturbed("none", <<>>)
    /\ lastOp' = "clear"
    /\ arg' = <<>>
    /\ UNCHANGED <<constructed, self, seats, primary_protocol, pc, reader>>

\* another client takes or drops a selection, at any time, also while
\* get_contents is blocked in the transport
ExternalOffer ==
    /\ seats
    /\ \E o \in Offers :
         \/ regular' = o /\ UNCHANGED primary
         \/ primary_protocol /\ primary' = o /\ UNCHANGED regular
    /\ last' = Undisturbed("none", <<>>)
    /\ UNCHANGED <<constructed, self, seats, primary_protocol,
                   lastOp, arg, result, calls, pc, reader>>

\* a seat appears, or the last seat goes away (and its selections with it)
ExternalSeatChange ==
    /\ seats' = ~seats
    /\ regular' = IF seats THEN NoOffer ELSE regular
    /\ primary' = IF seats THEN NoOffer ELSE primary
    /\ last' = Undisturbed("none", <<>>)
    /\ UNCHANGED <<constructed, self, primary_protocol,
                   lastOp, arg, result, calls, pc, reader>>

Next ==
    \/ New(CheckFaults)
    \/ GetPrimary(PasteFaults)
    \/ GetRegular(PasteFaults)
    \/ GetDrain(BOOLEAN)
    \/ Set(CopyFaults)
    \/ Clear(ClearFaults)
    \/ ExternalOffer
    \/ ExternalSeatChange

Spec == Init /\ [][Next]_vars

\* the same context with a transport that does not fail and no other client
NextQuiet ==
    \/ New({"none"})
    \/ GetPrimary({"none"})
    \/ GetRegular({"none"})
    \/ GetDrain({FALSE})
    \/ Set({"none"})
    \/ Clear({"none"})

SpecQuiet == Init /\ [][NextQuiet]_vars

TypeOK ==
    /\ constructed \in BOOLEAN
    /\ self.supports_primary_selection \in BOOLEAN
    /\ regular \in Offers /\ primary \in Offers
    /\ result.ok \in BOOLEAN
    /\ pc \in {"idle", "regular", "drainP", "drainR"}
    /\ reader \in ByteSeqs

\* ------------------------------------------------------------ claims
\* a get_contents call has returned
IsGet == lastOp = "get" /\ pc = "idle"
Flag == self.supports_primary_selection
LastCall == calls[Len(calls)]

\* what decoding the stream of a successful paste call must give
Decoded(c) ==
    IF c.io THEN Err("Io")
    ELSE IF IsValidUtf8(c.bytes) THEN Ok(c.bytes)
    ELSE Err("InvalidData")

\* C1: with a transport that does not fail and no other client, every
\* get_contents that follows a successful set_contents(S) returns exactly
\* the bytes of S, for either value of the capability flag.
C1_RoundTrip ==
    (IsGet /\ last.kind = "set") => result = Ok(last.data)

C1_Witness ==
    /\ IsGet /\ last.kind = "set" /\ Flag
    /\ last.data # <<>> /\ last.data[Len(last.data)] = 10
    /\ result = Ok(last.data)

\* C2: when the flag is true and the primary paste reports NoSeats,
\* ClipboardEmpty or NoMimeType, get_contents goes on to paste from the
\* regular selection; with ClipboardEmpty on primary and text P on regular
\* it returns P.
C2_FallbackOrder ==
    (IsGet /\ Flag /\ calls[1].clipboard = "Primary" /\ calls[1].resp \in EmptyLike)
        => /\ Len(calls) = 2
           /\ calls[2].clipboard = "Regular"
           /\ calls[2].resp = "Ok" => result = Decoded(calls[2])

\* C3: when the flag is true, a primary paste failure outside the three
\* empty-like kinds is returned to the caller and the regular selection is
\* not read during that call.
C3_Propagates ==
    (IsGet /\ Flag /\ calls[1].clipboard = "Primary"
           /\ calls[1].resp \notin EmptyLike \cup {"Ok"})
        => result = Err(calls[1].resp) /\ Len(calls) = 1

\* C4: get_contents never fails with NoSeats, ClipboardEmpty or NoMimeType,
\* and when the regular paste reports one of them it returns the empty string.
C4_EmptyLikeAbsorbed ==
    IsGet => /\ ~result.ok => result.err \notin EmptyLike
             /\ (LastCall.clipboard = "Regular" /\ LastCall.resp \in EmptyLike)
                    => result = Ok(<<>>)

C4_Witness ==
    /\ IsGet /\ Flag /\ Len(calls) = 2
    /\ calls[2].clipboard = "Regular" /\ calls[2].resp = "NoMimeType"
    /\ result = Ok(<<>>)

\* C5: a context whose flag is false makes no transport call that targets
\* the primary selection: every paste, copy and clear is for Regular.
C5_CapabilityGating ==
    (constructed /\ ~Flag /\ lastOp \in {"get", "set", "clear"})
        => \A i \in 1..Len(calls) : calls[i].clipboard = "Regular"

C5_Witness ==
    /\ constructed /\ ~Flag /\ IsGet
    /\ primary.kind = "text"
    /\ Len(calls) = 1 /\ calls[1].clipboard = "Regular"

\* C6: set_contents(S) makes exactly one copy call, for all seats, with the
\* bytes of S and no newline trimming, targeting Both when the flag is true
\* and Regular when it is false; it fails exactly when that call fails, and
\* on success the targeted selections offer exactly S.
C6_WriteTargeting ==
    lastOp = "set" =>
        /\ Len(calls) = 1
        /\ calls[1].fn = "copy" /\ calls[1].seat = "All"
        /\ calls[1].bytes = arg /\ calls[1].trim_newline = FALSE
        /\ calls[1].clipboard = IF Flag THEN "Both" ELSE "Regular"
        /\ result.ok <=> calls[1].resp = "Ok"
        /\ (result.ok /\ last.kind = "set")
              => /\ regular = TextOffer(arg)
                 /\ Flag => primary = TextOffer(arg)

C6_Witness ==
    /\ lastOp = "set" /\ ~Flag /\ result.ok
    /\ last.kind = "set"
    /\ arg = <<10>> /\ regular = TextOffer(<<10>>)
    /\ calls[1].clipboard = "Regular"

\* C7: clear makes exactly one transport clear call, for all seats,
\* targeting Both when the flag is true and Regular when it is false, and
\* fails exactly when that call fails.
C7_ClearScope ==
    lastOp = "clear" =>
        /\ Len(calls) = 1
        /\ calls[1].fn = "clear" /\ calls[1].seat = "All"
        /\ calls[1].clipboard = IF Flag THEN "Both" ELSE "Regular"
        /\ result.ok <=> calls[1].resp = "Ok"

C7_Witness ==
    /\ lastOp = "clear" /\ ~Flag /\ result.ok
    /\ calls[1].clipboard = "Regular"
    /\ primary.kind = "text"

C8_State ==
    /\ lastOp = "new" =>
         /\ Len(calls) = 1 /\ calls[1].fn = "check"
         /\ calls[1].resp = "NoSeats" => constructed /\ ~Flag /\ result.ok
         /\ calls[1].resp = "Ok" => constructed /\ Flag = primary_protocol /\ result.ok
         /\ calls[1].resp \notin {"Ok", "NoSeats"}
              => ~constructed /\ result = Err(calls[1].resp)
    /\ lastOp # "new" => \A i \in 1..Len(calls) : calls[i].fn # "check"

\* C8: construction makes one capability check; NoSeats gives a context with
\* the flag false, success with b gives a context with the flag b, any other
\* error gives no context; afterwards the flag never changes and no
\* operation repeats the check.
C8_Construction ==
    [](C8_State) /\ [][constructed => (constructed' /\ self' = self)]_vars

C8_Witness ==
    /\ lastOp = "new" /\ calls[1].resp = "NoSeats"
    /\ constructed /\ ~Flag /\ primary_protocol

\* C9: with a transport that does not fail and no other client, every
\* get_contents after a successful clear (and no set_contents since)
\* returns the empty string, for either value of the flag.
C9_EmptyAfterClear ==
    (IsGet /\ last.kind = "clear") => result = Ok(<<>>)

C9_Witness ==
    /\ IsGet /\ last.kind = "clear" /\ Flag
    /\ Len(calls) = 1 /\ calls[1].resp = "ClipboardEmpty"
    /\ result = Ok(<<>>)

\* C10: a paste call that succeeds but whose stream is not valid UTF-8 or
\* fails while drained makes get_contents fail, and it is the last transport
\* call of that get_contents (no regular read after a primary one).
C10_DecodeNoFallback ==
    IsGet => \A i \in 1..Len(calls) :
        (calls[i].resp = "Ok" /\ ~Decoded(calls[i]).ok)
            => /\ result = Decoded(calls[i])
               /\ i = Len(calls)

C10_Witness ==
    /\ IsGet /\ Flag /\ Len(calls) = 1
    /\ calls[1].clipboard = "Primary" /\ calls[1].resp = "Ok"
    /\ ~IsValidUtf8(calls[1].bytes)
    /\ regular.kind = "text" /\ IsValidUtf8(regular.bytes)
    /\ result = Err("InvalidData")

====
